---- MODULE Spec2Model ----
(***************************************************************************)
(* Model of scanner/engine/db.cpp: the metadata catalog                    *)
(* (DatabaseMetadata), JobMetadata, TableMetadata and the publish routine  *)
(* write_new_table.                                                        *)
(*                                                                         *)
(* Conventions                                                             *)
(*  - std::map<i32, std::string> is a function whose DOMAIN is the key     *)
(*    set; range-for over a map visits the keys in ascending order.        *)
(*  - assert(...) is active: a failing assert and LOG(FATAL) abort the     *)
(*    process; std::map::at on a missing key throws and, uncaught, aborts  *)
(*    too.  A call that aborts returns Fatal / FatalName.                  *)
(*  - A protobuf repeated field is a sequence.                             *)
(***************************************************************************)
EXTENDS Integers, Sequences, FiniteSets, TLC

VARIABLES meta, table, pc, storage, job, last, add_log, removed, issued,
          video, image, PREFIX, path_a, path_b, pub, job_log

vars == <<meta, table, pc, storage, job, last, add_log, removed, issued,
          video, image, PREFIX, path_a, path_b, pub, job_log>>

(***************************************************************************)
(* Bounds                                                                  *)
(***************************************************************************)
MaxTables == 3

MaxJobs == 2

MaxTasks == 2

MaxSamples == 2

MaxColumns == 2

MaxKeyframes == 2

Names == {"a", "b"}

JobNames == {"j"}

TableIds == 0..MaxTables

JobIds == 0..MaxJobs

(***************************************************************************)
(* Results of calls                                                        *)
(***************************************************************************)
Ok(v) == [fatal |-> FALSE, val |-> v]

Fatal == [fatal |-> TRUE, val |-> -1]

FatalName == [fatal |-> TRUE, val |-> ""]

(***************************************************************************)
(* std::map primitives                                                     *)
(***************************************************************************)
EmptyMap == [k \in {} |-> 0]

\* m.insert({k, v}): keeps the existing entry when k is already present
map_insert(m, k, v) == IF k \in DOMAIN m THEN m ELSE m @@ (k :> v)

\* m[k] = v: overwrites
map_assign(m, k, v) == [x \in DOMAIN m \cup {k} |-> IF x = k THEN v ELSE m[x]]

\* m.erase(k)
map_erase(m, k) == [x \in DOMAIN m \ {k} |-> m[x]]

RECURSIVE SortedKeys(_)
\* iteration order of a std::map: ascending keys
SortedKeys(S) ==
  IF S = {} THEN <<>>
  ELSE LET lo == CHOOSE x \in S : \A y \in S : x <= y
       IN <<lo>> \o SortedKeys(S \ {lo})

RECURSIVE SeqsUpTo(_, _)
\* all sequences over S of length 0..n
SeqsUpTo(S, n) ==
  IF n = 0 THEN {<<>>}
  ELSE LET shorter == SeqsUpTo(S, n - 1)
       IN shorter \cup {Append(q, x) : q \in {r \in shorter : Len(r) = n - 1}, x \in S}

(***************************************************************************)
(* DatabaseMetadata                                                        *)
(***************************************************************************)
EmptyDatabaseDescriptor ==
  [next_table_id |-> 0, next_job_id |-> 0, tables |-> <<>>, jobs |-> <<>>]

\* DatabaseMetadata::DatabaseMetadata()
DatabaseMetadata_default ==
  [next_table_id_ |-> 0, next_job_id_ |-> 0,
   table_names_ |-> EmptyMap, job_names_ |-> EmptyMap,
   descriptor_ |-> EmptyDatabaseDescriptor]

RECURSIVE insert_all(_, _, _)
\* for (i = 0; i < size; ++i) names.insert({entries(i).id(), entries(i).name()})
insert_all(m, entries, i) ==
  IF i > Len(entries) THEN m
  ELSE insert_all(map_insert(m, entries[i].id, entries[i].name), entries, i + 1)

\* the constructor taking the counters from the number of entries instead of
\* the descriptor's next_table_id / next_job_id
DatabaseMetadata_from_count(d) ==
  [next_table_id_ |-> Len(d.tables), next_job_id_ |-> Len(d.jobs),
   table_names_ |-> insert_all(EmptyMap, d.tables, 1),
   job_names_ |-> insert_all(EmptyMap, d.jobs, 1),
   descriptor_ |-> d]

\* DatabaseMetadata::DatabaseMetadata(const DatabaseDescriptor& d)
DatabaseMetadata_from(d) ==
  [next_table_id_ |-> d.next_table_id, next_job_id_ |-> d.next_job_id,
   table_names_ |-> insert_all(EmptyMap, d.tables, 1),
   job_names_ |-> insert_all(EmptyMap, d.jobs, 1),
   descriptor_ |-> d]

RECURSIVE add_entries(_, _)
\* for (auto& kv : names) { e = add(); e->set_id(kv.first); e->set_name(kv.second); }
add_entries(m, keys) ==
  IF keys = <<>> THEN <<>>
  ELSE <<[id |-> Head(keys), name |-> m[Head(keys)]]>> \o add_entries(m, Tail(keys))

\* get_descriptor() without clear_tables()/clear_jobs(): the rebuilt lists
\* are appended to what an earlier call left in descriptor_
get_descriptor_no_clear(m) ==
  [next_table_id |-> m.next_table_id_, next_job_id |-> m.next_job_id_,
   tables |-> m.descriptor_.tables
              \o add_entries(m.table_names_, SortedKeys(DOMAIN m.table_names_)),
   jobs |-> m.descriptor_.jobs
            \o add_entries(m.job_names_, SortedKeys(DOMAIN m.job_names_))]

\* the descriptor DatabaseMetadata::get_descriptor() leaves in descriptor_
get_descriptor(m) ==
  [next_table_id |-> m.next_table_id_, next_job_id |-> m.next_job_id_,
   tables |-> add_entries(m.table_names_, SortedKeys(DOMAIN m.table_names_)),
   jobs |-> add_entries(m.job_names_, SortedKeys(DOMAIN m.job_names_))]

RECURSIVE scan_has(_, _, _)
\* for (kv : names) if (kv.second == name) return true;  return false;
scan_has(m, keys, name) ==
  IF keys = <<>> THEN FALSE
  ELSE IF m[Head(keys)] = name THEN TRUE
  ELSE scan_has(m, Tail(keys), name)

RECURSIVE scan_id(_, _, _)
\* id = -1; for (kv : names) if (kv.second == name) { id = kv.first; break; }
scan_id(m, keys, name) ==
  IF keys = <<>> THEN -1
  ELSE IF m[Head(keys)] = name THEN Head(keys)
  ELSE scan_id(m, Tail(keys), name)

\* bool DatabaseMetadata::has_table(const std::string&)
has_table_name(m, name) ==
  scan_has(m.table_names_, SortedKeys(DOMAIN m.table_names_), name)

\* bool DatabaseMetadata::has_table(i32)
has_table(m, id) == Cardinality({k \in DOMAIN m.table_names_ : k = id}) > 0

\* get_table_id without its assert: a miss returns the -1 sentinel
get_table_id_unchecked(m, name) ==
  Ok(scan_id(m.table_names_, SortedKeys(DOMAIN m.table_names_), name))

\* i32 DatabaseMetadata::get_table_id(const std::string&)
get_table_id(m, name) ==
  LET id == scan_id(m.table_names_, SortedKeys(DOMAIN m.table_names_), name)
  IN IF id # -1 THEN Ok(id) ELSE Fatal

\* const std::string& DatabaseMetadata::get_table_name(i32)
get_table_name(m, id) ==
  IF id \in DOMAIN m.table_names_ THEN Ok(m.table_names_[id]) ELSE FatalName

\* add_table drawing from a pool: the smallest id not in the index
add_table_reuse(m, name) ==
  LET table_id == CHOOSE x \in 0..m.next_table_id_ :
                    /\ x \notin DOMAIN m.table_names_
                    /\ \A y \in 0..(x - 1) : y \in DOMAIN m.table_names_
  IN [meta |-> [m EXCEPT !.next_table_id_ =
                            IF table_id = m.next_table_id_ THEN table_id + 1
                            ELSE m.next_table_id_,
                         !.table_names_ = map_assign(m.table_names_, table_id, name)],
      ret |-> Ok(table_id)]

\* i32 DatabaseMetadata::add_table(const std::string&)
add_table(m, name) ==
  LET table_id == m.next_table_id_
  IN [meta |-> [m EXCEPT !.next_table_id_ = table_id + 1,
                         !.table_names_ = map_assign(m.table_names_, table_id, name)],
      ret |-> Ok(table_id)]

\* remove_table that gives the id back when it is the newest one
remove_table_release(m, id) ==
  IF ~(Cardinality({k \in DOMAIN m.table_names_ : k = id}) > 0)
  THEN [meta |-> m, ret |-> Fatal]
  ELSE [meta |-> [m EXCEPT !.table_names_ = map_erase(m.table_names_, id),
                           !.next_table_id_ =
                              IF id = m.next_table_id_ - 1 THEN id
                              ELSE m.next_table_id_],
        ret |-> Ok(0)]

\* void DatabaseMetadata::remove_table(i32)
remove_table(m, id) ==
  IF ~(Cardinality({k \in DOMAIN m.table_names_ : k = id}) > 0)
  THEN [meta |-> m, ret |-> Fatal]
  ELSE [meta |-> [m EXCEPT !.table_names_ = map_erase(m.table_names_, id)],
        ret |-> Ok(0)]

\* bool DatabaseMetadata::has_job(const std::string&)
has_job_name(m, name) ==
  scan_has(m.job_names_, SortedKeys(DOMAIN m.job_names_), name)

\* bool DatabaseMetadata::has_job(i32)
has_job(m, id) == Cardinality({k \in DOMAIN m.job_names_ : k = id}) > 0

\* i32 DatabaseMetadata::get_job_id(const std::string&)
get_job_id(m, name) ==
  LET job_id == scan_id(m.job_names_, SortedKeys(DOMAIN m.job_names_), name)
  IN IF job_id # -1 THEN Ok(job_id) ELSE Fatal

\* const std::string& DatabaseMetadata::get_job_name(i32)
get_job_name(m, id) ==
  IF id \in DOMAIN m.job_names_ THEN Ok(m.job_names_[id]) ELSE FatalName

\* add_job pasted from add_table with the index left unrenamed: the entry
\* goes into table_names_
add_job_shared(m, name) ==
  LET job_id == m.next_job_id_
  IN [meta |-> [m EXCEPT !.next_job_id_ = job_id + 1,
                         !.table_names_ = map_assign(m.table_names_, job_id, name)],
      ret |-> Ok(job_id)]

\* i32 DatabaseMetadata::add_job(const std::string&)
add_job(m, name) ==
  LET job_id == m.next_job_id_
  IN [meta |-> [m EXCEPT !.next_job_id_ = job_id + 1,
                         !.job_names_ = map_assign(m.job_names_, job_id, name)],
      ret |-> Ok(job_id)]

\* void DatabaseMetadata::remove_job(i32)
remove_job(m, id) ==
  IF ~(Cardinality({k \in DOMAIN m.job_names_ : k = id}) > 0)
  THEN [meta |-> m, ret |-> Fatal]
  ELSE [meta |-> [m EXCEPT !.job_names_ = map_erase(m.job_names_, id)],
        ret |-> Ok(0)]

(***************************************************************************)
(* Descriptor paths and the storage backend                                *)
(***************************************************************************)
\* std::string PREFIX, the process-wide path prefix, is the variable PREFIX;
\* the path functions prepend its current value

\* database_metadata_path()
database_metadata_path == PREFIX \o "db_metadata.bin"

\* table_descriptor_path(table_id)
table_descriptor_path(table_id) ==
  PREFIX \o "tables/" \o ToString(table_id) \o "/descriptor.bin"

\* job_descriptor_path(job_id)
job_descriptor_path(job_id) ==
  PREFIX \o "jobs/" \o ToString(job_id) \o "/descriptor.bin"

\* table_item_video_metadata_path(table_id, column_id, item_id)
table_item_video_metadata_path(table_id, column_id, item_id) ==
  PREFIX \o "tables/" \o ToString(table_id) \o "/" \o ToString(column_id)
         \o "_" \o ToString(item_id) \o "_video_metadata.bin"

\* Metadata<DatabaseDescriptor>::descriptor_path() const
Database_descriptor_path(m) == database_metadata_path

\* Metadata<TableDescriptor>::descriptor_path() const
Table_descriptor_path(t) == table_descriptor_path(t.descriptor_.id)

\* a backend without files
EmptyStorage == [p \in {} |-> 0]

\* Backend write(path, bytes): creates or replaces the file at path
storage_write(st, path, bytes) ==
  [p \in DOMAIN st \cup {path} |-> IF p = path THEN bytes ELSE st[p]]

\* write_table_metadata(storage, table)
write_table_metadata(st, t) == storage_write(st, Table_descriptor_path(t), t.descriptor_)

\* write_database_metadata(storage, meta)
write_database_metadata(st, m) ==
  storage_write(st, Database_descriptor_path(m), get_descriptor(m))

\* reading the catalog at process start: the persisted descriptor when there
\* is one, a fresh catalog otherwise
read_database_metadata(st) ==
  IF database_metadata_path \in DOMAIN st
  THEN DatabaseMetadata_from(st[database_metadata_path])
  ELSE DatabaseMetadata_default

(***************************************************************************)
(* TableMetadata                                                           *)
(***************************************************************************)
ColumnIds == {0, 1}

ColumnNames == {"index", "frame"}

ColumnTypes == {"INT", "VIDEO"}

\* Column{id, name, type}
Columns == [id : ColumnIds, name : ColumnNames, type : ColumnTypes]

\* the column lists of a TableDescriptor or JobDescriptor
ColumnLists == SeqsUpTo(Columns, MaxColumns)

RECURSIVE push_back_columns(_, _, _)
\* for (auto &c : descriptor_.columns()) columns_.push_back(c);
push_back_columns(columns, cs, i) ==
  IF i > Len(cs) THEN columns
  ELSE push_back_columns(Append(columns, cs[i]), cs, i + 1)

\* TableMetadata::TableMetadata(const TableDescriptor&)
TableMetadata_from(d) ==
  [descriptor_ |-> d, columns_ |-> push_back_columns(<<>>, d.columns, 1)]

\* TableMetadata::TableMetadata(): a default TableDescriptor
TableMetadata_default ==
  [descriptor_ |-> [id |-> 0, name |-> "", columns |-> <<>>], columns_ |-> <<>>]

\* an unpersisted table a caller built for publishing
TableMetadata_named(name) ==
  TableMetadata_from([id |-> 0, name |-> name, columns |-> <<>>])

RECURSIVE find_column_by_id(_, _, _)
\* for (auto &c : columns) if (c.id() == column_id) return ...;  0: no match
find_column_by_id(cs, i, column_id) ==
  IF i > Len(cs) THEN 0
  ELSE IF cs[i].id = column_id THEN i
  ELSE find_column_by_id(cs, i + 1, column_id)

RECURSIVE find_column_by_name(_, _, _)
\* for (auto &c : columns) if (c.name() == column_name) return ...;  0: no match
find_column_by_name(cs, i, column_name) ==
  IF i > Len(cs) THEN 0
  ELSE IF cs[i].name = column_name THEN i
  ELSE find_column_by_name(cs, i + 1, column_name)

\* TableMetadata::column_name(i32)
Table_column_name(t, column_id) ==
  LET i == find_column_by_id(t.descriptor_.columns, 1, column_id)
  IN IF i = 0 THEN FatalName ELSE Ok(t.descriptor_.columns[i].name)

RECURSIVE find_last_column_by_name(_, _, _, _)
\* the scan without the early return: the last match wins
find_last_column_by_name(cs, i, column_name, found) ==
  IF i > Len(cs) THEN found
  ELSE find_last_column_by_name(cs, i + 1, column_name,
                                IF cs[i].name = column_name THEN i ELSE found)

Table_column_id_last(t, column_name) ==
  LET i == find_last_column_by_name(t.descriptor_.columns, 1, column_name, 0)
  IN IF i = 0 THEN Fatal ELSE Ok(t.descriptor_.columns[i].id)

\* TableMetadata::column_id(const std::string&)
Table_column_id(t, column_name) ==
  LET i == find_column_by_name(t.descriptor_.columns, 1, column_name)
  IN IF i = 0 THEN Fatal ELSE Ok(t.descriptor_.columns[i].id)

\* TableMetadata::column_type(i32)
Table_column_type(t, column_id) ==
  LET i == find_column_by_id(t.descriptor_.columns, 1, column_id)
  IN IF i = 0 THEN FatalName ELSE Ok(t.descriptor_.columns[i].type)

\* TableMetadata::id()
Table_id(t) == t.descriptor_.id

\* TableMetadata::name()
Table_name(t) == t.descriptor_.name

(***************************************************************************)
(* VideoMetadata, ImageFormatGroupMetadata                                 *)
(***************************************************************************)
\* table and job ids that paths are derived for
ItemKeys == {0, 1, 11}

\* the values of each of the three keys of a video item descriptor
VideoKeys == {1, 11}

KeyframeValues == {0, 30}

\* VideoDescriptor payloads (the fields the modelled methods read)
VideoDescriptors ==
  [table_id : {0}, column_id : {0}, item_id : {0},
   keyframe_positions : SeqsUpTo(KeyframeValues, MaxKeyframes),
   keyframe_byte_offsets : SeqsUpTo(KeyframeValues, MaxKeyframes)]

\* ImageFormatGroupDescriptor payloads
ImageFormatGroupDescriptors ==
  [num_images : 0..MaxKeyframes,
   compressed_sizes : SeqsUpTo(KeyframeValues, MaxKeyframes)]

\* VideoMetadata::VideoMetadata(const VideoDescriptor&): Metadata(descriptor)
VideoMetadata_from(d) == [descriptor_ |-> d]

\* VideoMetadata::VideoMetadata()
VideoMetadata_default ==
  VideoMetadata_from([table_id |-> 0, column_id |-> 0, item_id |-> 0,
                      keyframe_positions |-> <<>>, keyframe_byte_offsets |-> <<>>])

\* VideoMetadata::table_id()
Video_table_id(v) == v.descriptor_.table_id

\* VideoMetadata::column_id()
Video_column_id(v) == v.descriptor_.column_id

\* VideoMetadata::item_id()
Video_item_id(v) == v.descriptor_.item_id

\* VideoMetadata::keyframe_positions(): a copy of the repeated field
Video_keyframe_positions(v) ==
  [i \in 1..Len(v.descriptor_.keyframe_positions) |->
     v.descriptor_.keyframe_positions[i]]

\* VideoMetadata::keyframe_byte_offsets(): a copy of the repeated field
Video_keyframe_byte_offsets(v) ==
  [i \in 1..Len(v.descriptor_.keyframe_byte_offsets) |->
     v.descriptor_.keyframe_byte_offsets[i]]

\* ImageFormatGroupMetadata::ImageFormatGroupMetadata(const ImageFormatGroupDescriptor&)
ImageFormatGroupMetadata_from(d) == [descriptor_ |-> d]

\* ImageFormatGroupMetadata::ImageFormatGroupMetadata()
ImageFormatGroupMetadata_default ==
  ImageFormatGroupMetadata_from([num_images |-> 0, compressed_sizes |-> <<>>])

\* ImageFormatGroupMetadata::num_images()
Image_num_images(g) == g.descriptor_.num_images

\* ImageFormatGroupMetadata::compressed_sizes(): a copy of the repeated field
Image_compressed_sizes(g) ==
  [i \in 1..Len(g.descriptor_.compressed_sizes) |->
     g.descriptor_.compressed_sizes[i]]

(***************************************************************************)
(* JobMetadata                                                             *)
(***************************************************************************)
JobTableIds == {5, 6}

\* the row counts of a sample
RowCounts == {1, 2}

\* TableSample: rows_size() is all the code reads of a sample
Samples == [rows_size : RowCounts]

\* Task{output_table_id, samples}
Tasks == [output_table_id : JobTableIds, samples : SeqsUpTo(Samples, MaxSamples)]

\* JobDescriptor payloads (the fields the modelled methods read), without
\* columns
JobDescriptors == [id : {0}, tasks : SeqsUpTo(Tasks, MaxTasks), columns : {<<>>}]

RECURSIVE insert_column_ids(_, _, _)
\* for (auto &c : columns) column_ids_.insert({c.name(), c.id()});
insert_column_ids(ids, cs, i) ==
  IF i > Len(cs) THEN ids
  ELSE insert_column_ids(map_insert(ids, cs[i].name, cs[i].id), cs, i + 1)

RECURSIVE push_back_ids(_, _, _)
\* for (auto &t : tasks) table_ids_.push_back(t.output_table_id());
push_back_ids(ids, tasks, i) ==
  IF i > Len(tasks) THEN ids
  ELSE push_back_ids(Append(ids, tasks[i].output_table_id), tasks, i + 1)

\* JobMetadata::JobMetadata(const JobDescriptor&)
JobMetadata_from(d) ==
  [descriptor_ |-> d,
   columns_ |-> push_back_columns(<<>>, d.columns, 1),
   column_ids_ |-> insert_column_ids(EmptyMap, d.columns, 1),
   table_ids_ |-> push_back_ids(<<>>, d.tasks, 1),
   rows_in_table_ |-> EmptyMap]

\* JobMetadata::JobMetadata()
JobMetadata_default ==
  JobMetadata_from([id |-> 0, tasks |-> <<>>, columns |-> <<>>])

\* JobMetadata::id()
Job_id(j) == j.descriptor_.id

\* the values a call that flows off the end of a non-void function can
\* hand to its caller: whatever the return register holds
UndefinedInts == {-1, 0, 1, 99}

\* JobMetadata::column_id(const std::string&): the results the call can
\* have.  column_ids_.at(name) throws on a missing name; on a present name
\* its value is discarded and the function ends without a return statement
Job_column_id(j, column_name) ==
  IF column_name \notin DOMAIN j.column_ids_ THEN {Fatal}
  ELSE {Ok(v) : v \in UndefinedInts}

\* JobMetadata::table_ids()
Job_table_ids(j) == j.table_ids_

RECURSIVE scan_contains(_, _, _)
\* for (i32 id : table_ids_) if (id == table_id) return true;  return false;
scan_contains(ids, i, table_id) ==
  IF i > Len(ids) THEN FALSE
  ELSE IF ids[i] = table_id THEN TRUE
  ELSE scan_contains(ids, i + 1, table_id)

\* JobMetadata::has_table(i32)
Job_has_table(j, table_id) == scan_contains(j.table_ids_, 1, table_id)

RECURSIVE rows_in_table_loop(_, _, _, _, _)
\* the cache-miss loop of rows_in_table: every task overwrites rows and
\* tries to insert (table_id, rows); a task without samples aborts
rows_in_table_loop(tasks, i, table_id, rows, cache) ==
  IF i > Len(tasks) THEN [rows |-> rows, cache |-> cache, aborted |-> FALSE]
  ELSE IF ~(Len(tasks[i].samples) > 0)
       THEN [rows |-> rows, cache |-> cache, aborted |-> TRUE]
  ELSE LET r == tasks[i].samples[1].rows_size
       IN rows_in_table_loop(tasks, i + 1, table_id, r, map_insert(cache, table_id, r))

\* JobMetadata::rows_in_table(i32)
rows_in_table(j, table_id) ==
  IF table_id \notin DOMAIN j.rows_in_table_
  THEN LET res == rows_in_table_loop(j.descriptor_.tasks, 1, table_id, -1, j.rows_in_table_)
       IN [job |-> [j EXCEPT !.rows_in_table_ = res.cache],
           ret |-> IF res.aborted \/ res.rows = -1 THEN Fatal ELSE Ok(res.rows)]
  ELSE LET rows == j.rows_in_table_[table_id]
       IN [job |-> j, ret |-> IF rows = -1 THEN Fatal ELSE Ok(rows)]

RECURSIVE total_rows_loop(_, _, _)
\* for (task : tasks) { assert(samples_size > 0); rows += samples(0).rows_size(); }
total_rows_loop(tasks, i, rows) ==
  IF i > Len(tasks) THEN Ok(rows)
  ELSE IF ~(Len(tasks[i].samples) > 0) THEN Fatal
  ELSE total_rows_loop(tasks, i + 1, rows + tasks[i].samples[1].rows_size)

RECURSIVE total_samples_loop(_, _, _)
\* total_rows adding samples_size() where the code adds samples(0).rows_size()
total_samples_loop(tasks, i, rows) ==
  IF i > Len(tasks) THEN Ok(rows)
  ELSE IF ~(Len(tasks[i].samples) > 0) THEN Fatal
  ELSE total_samples_loop(tasks, i + 1, rows + Len(tasks[i].samples))

total_rows_samples(j) == total_samples_loop(j.descriptor_.tasks, 1, 0)

\* JobMetadata::total_rows()
total_rows(j) == total_rows_loop(j.descriptor_.tasks, 1, 0)

(***************************************************************************)
(* descriptor_path: the member function every Metadata<T> writes with and  *)
(* the static function of each class that readers use                      *)
(***************************************************************************)
\* Metadata<VideoDescriptor>::descriptor_path() with table and column swapped
Video_descriptor_path_swapped(v) ==
  table_item_video_metadata_path(Video_column_id(v), Video_table_id(v),
                                 Video_item_id(v))

\* Metadata<VideoDescriptor>::descriptor_path() const
Video_descriptor_path(v) ==
  table_item_video_metadata_path(Video_table_id(v), Video_column_id(v),
                                 Video_item_id(v))

\* Metadata<JobDescriptor>::descriptor_path() const
Job_descriptor_path(j) == job_descriptor_path(Job_id(j))

\* DatabaseMetadata::descriptor_path()
DatabaseMetadata_descriptor_path == database_metadata_path

\* VideoMetadata::descriptor_path(table_id, column_id, item_id)
VideoMetadata_descriptor_path(table_id, column_id, item_id) ==
  table_item_video_metadata_path(table_id, column_id, item_id)

\* JobMetadata::descriptor_path(job_id)
JobMetadata_descriptor_path(job_id) == job_descriptor_path(job_id)

\* TableMetadata::descriptor_path(table_id)
TableMetadata_descriptor_path(table_id) == table_descriptor_path(table_id)

\* the key tuples of each entity kind
PathKeys ==
  [db |-> {<<>>},
   table |-> {<<t>> : t \in ItemKeys},
   job |-> {<<j>> : j \in ItemKeys},
   video |-> {<<t, c, i>> : t \in VideoKeys, c \in VideoKeys, i \in VideoKeys}]

\* the path an object of the kind with these keys writes its descriptor to
member_path(kind, keys) ==
  CASE kind = "db" -> Database_descriptor_path(DatabaseMetadata_default)
    [] kind = "table" ->
         Table_descriptor_path(
           TableMetadata_from([id |-> keys[1], name |-> "", columns |-> <<>>]))
    [] kind = "job" ->
         Job_descriptor_path(
           JobMetadata_from([id |-> keys[1], tasks |-> <<>>, columns |-> <<>>]))
    [] kind = "video" ->
         Video_descriptor_path(
           VideoMetadata_from([table_id |-> keys[1], column_id |-> keys[2],
                               item_id |-> keys[3],
                               keyframe_positions |-> <<>>,
                               keyframe_byte_offsets |-> <<>>]))

\* the path a reader derives from the keys
static_path(kind, keys) ==
  CASE kind = "db" -> DatabaseMetadata_descriptor_path
    [] kind = "table" -> TableMetadata_descriptor_path(keys[1])
    [] kind = "job" -> JobMetadata_descriptor_path(keys[1])
    [] kind = "video" -> VideoMetadata_descriptor_path(keys[1], keys[2], keys[3])

\* the roots set_database_path is called with
Roots == {"db", "db2"}

\* void set_database_path(std::string path): the new value of PREFIX
set_database_path(path) == path \o "/"

(***************************************************************************)
(* write_new_table                                                         *)
(***************************************************************************)
\* write_new_table without table.get_descriptor().set_id(table_id)
write_new_table_allocate_no_stamp(m, t) ==
  LET r == add_table(m, Table_name(t))
  IN [meta |-> r.meta, table |-> t, ret |-> r.ret]

\* lines 392-394: allocate the id and stamp the table's descriptor with it
write_new_table_allocate(m, t) ==
  LET r == add_table(m, Table_name(t))
  IN [meta |-> r.meta,
      table |-> [t EXCEPT !.descriptor_.id = r.ret.val],
      ret |-> r.ret]

\* the two flushes in the reverse order: catalog first, table second
write_new_table_flush_reversed(pos, st, m, t) ==
  IF pos = "allocated"
  THEN [storage |-> write_database_metadata(st, m),
        meta |-> [m EXCEPT !.descriptor_ = get_descriptor(m)],
        pc |-> "table_written"]
  ELSE [storage |-> write_table_metadata(st, t), meta |-> m, pc |-> "idle"]

\* lines 396-397: the two flushes, in program order; pos is the position
\* reached in write_new_table, the result the storage and catalog after the
\* flush at that position and the position that follows
write_new_table_flush(pos, st, m, t) ==
  IF pos = "allocated"
  THEN [storage |-> write_table_metadata(st, t), meta |-> m, pc |-> "table_written"]
  ELSE [storage |-> write_database_metadata(st, m),
        meta |-> [m EXCEPT !.descriptor_ = get_descriptor(m)],
        pc |-> "idle"]

(***************************************************************************)
(* State                                                                   *)
(*   meta     the DatabaseMetadata the process holds                       *)
(*   table    the TableMetadata being published                            *)
(*   pc       "idle": between calls; "allocated", "table_written": inside  *)
(*            write_new_table; "down": the process aborted                 *)
(*   storage  the files at the backend, by path                            *)
(*   job      a JobMetadata                                                *)
(*   last     the last call: its name, arguments and result                *)
(*   add_log  the ids add_table returned, in call order                    *)
(*   removed  the table ids remove_table removed                           *)
(*   issued   the ids write_new_table allocated, over all process runs     *)
(*   video    a VideoMetadata                                              *)
(*   image    an ImageFormatGroupMetadata                                  *)
(*   PREFIX   the process-wide path prefix                                 *)
(*   path_a   an earlier descriptor_path computation, path_b the latest    *)
(*   pub      ret: the id add_table returned to the publish in progress or *)
(*            last completed; done: id -> name of the completed publishes  *)
(*   job_log  the ids add_job returned, in call order                      *)
(* add_log and removed are the history of the catalog object the process   *)
(* holds: they start empty with every process.                             *)
(***************************************************************************)
\* no path computed yet
NoPath == [kind |-> "none", via |-> "none", keys |-> <<>>, prefix |-> "", path |-> ""]

Call(op, id, name, ret) == [op |-> op, id |-> id, name |-> name, ret |-> ret]

InitCommon ==
  /\ meta = DatabaseMetadata_default
  /\ pc = "idle"
  /\ storage = EmptyStorage
  /\ last = Call("init", -1, "", Ok(0))
  /\ add_log = <<>>
  /\ removed = {}
  /\ issued = {}
  /\ PREFIX = ""
  /\ path_a = NoPath
  /\ path_b = NoPath
  /\ pub = [ret |-> -1, done |-> EmptyMap]
  /\ job_log = <<>>

\* a fresh catalog, no backend activity
Init ==
  /\ InitCommon
  /\ table = TableMetadata_default
  /\ job = JobMetadata_default
  /\ video = VideoMetadata_default
  /\ image = ImageFormatGroupMetadata_default

\* a JobMetadata constructed from any bounded JobDescriptor
InitJob ==
  /\ InitCommon
  /\ table = TableMetadata_default
  /\ job \in {JobMetadata_from(d) : d \in JobDescriptors}
  /\ video = VideoMetadata_default
  /\ image = ImageFormatGroupMetadata_default

(***************************************************************************)
(* Catalog calls                                                           *)
(***************************************************************************)
AddTable(name) ==
  /\ pc = "idle"
  /\ meta.next_table_id_ < MaxTables
  /\ LET r == add_table(meta, name)
     IN /\ meta' = r.meta
        /\ last' = Call("add_table", r.ret.val, name, r.ret)
        /\ add_log' = Append(add_log, r.ret.val)
  /\ UNCHANGED <<table, pc, storage, job, removed, issued,
               video, image, PREFIX, path_a, path_b, pub, job_log>>

RemoveTable(id) ==
  /\ pc = "idle"
  /\ LET r == remove_table(meta, id)
     IN /\ meta' = r.meta
        /\ last' = Call("remove_table", id, "", r.ret)
        /\ pc' = IF r.ret.fatal THEN "down" ELSE "idle"
        /\ removed' = IF r.ret.fatal THEN removed ELSE removed \cup {id}
  /\ UNCHANGED <<table, storage, job, add_log, issued,
               video, image, PREFIX, path_a, path_b, pub, job_log>>

AddJob(name) ==
  /\ pc = "idle"
  /\ meta.next_job_id_ < MaxJobs
  /\ LET r == add_job(meta, name)
     IN /\ meta' = r.meta
        /\ last' = Call("add_job", r.ret.val, name, r.ret)
        /\ job_log' = Append(job_log, r.ret.val)
  /\ UNCHANGED <<table, pc, storage, job, add_log, removed, issued,
               video, image, PREFIX, path_a, path_b, pub>>

RemoveJob(id) ==
  /\ pc = "idle"
  /\ LET r == remove_job(meta, id)
     IN /\ meta' = r.meta
        /\ last' = Call("remove_job", id, "", r.ret)
        /\ pc' = IF r.ret.fatal THEN "down" ELSE "idle"
  /\ UNCHANGED <<table, storage, job, add_log, removed, issued,
               video, image, PREFIX, path_a, path_b, pub, job_log>>

\* get_descriptor() that rebuilds descriptor_ only while it is empty and
\* returns the one it built before otherwise
GetDescriptor_cached ==
  /\ pc = "idle"
  /\ meta' = IF meta.descriptor_ = EmptyDatabaseDescriptor
             THEN [meta EXCEPT !.descriptor_ = get_descriptor(meta)]
             ELSE meta
  /\ last' = Call("get_descriptor", -1, "", Ok(0))
  /\ UNCHANGED <<table, pc, storage, job, add_log, removed, issued,
               video, image, PREFIX, path_a, path_b, pub, job_log>>

\* meta.get_descriptor(): rewrites the object's descriptor_ and returns it
GetDescriptor ==
  /\ pc = "idle"
  /\ meta' = [meta EXCEPT !.descriptor_ = get_descriptor(meta)]
  /\ last' = Call("get_descriptor", -1, "", Ok(0))
  /\ UNCHANGED <<table, pc, storage, job, add_log, removed, issued,
               video, image, PREFIX, path_a, path_b, pub, job_log>>

\* DatabaseMetadata(meta.get_descriptor()): the catalog is replaced by the
\* one constructed from the descriptor get_descriptor() just returned
Reconstruct ==
  /\ pc = "idle"
  /\ last.op = "get_descriptor"
  /\ meta' = DatabaseMetadata_from(meta.descriptor_)
  /\ last' = Call("reconstruct", -1, "", Ok(0))
  /\ UNCHANGED <<table, pc, storage, job, add_log, removed, issued,
               video, image, PREFIX, path_a, path_b, pub, job_log>>

Next ==
  \/ \E name \in Names : AddTable(name)
  \/ \E id \in TableIds : RemoveTable(id)
  \/ \E name \in JobNames : AddJob(name)
  \/ \E id \in JobIds : RemoveJob(id)
  \/ GetDescriptor
  \/ Reconstruct

Spec == Init /\ [][Next]_vars

(***************************************************************************)
(* Publishing, with process aborts and restarts                            *)
(***************************************************************************)
\* write_new_table, steps 1-2
WriteNewTableAllocate(name) ==
  /\ pc = "idle"
  /\ meta.next_table_id_ < MaxTables
  /\ LET r == write_new_table_allocate(meta, TableMetadata_named(name))
     IN /\ meta' = r.meta
        /\ table' = r.table
        /\ last' = Call("write_new_table", r.ret.val, name, r.ret)
        /\ issued' = issued \cup {r.ret.val}
        /\ pub' = [pub EXCEPT !.ret = r.ret.val]
  /\ pc' = "allocated"
  /\ UNCHANGED <<storage, job, add_log, removed,
               video, image, PREFIX, path_a, path_b, job_log>>

\* write_new_table, step 3 then step 4
WriteNewTableFlush ==
  /\ pc \in {"allocated", "table_written"}
  /\ LET r == write_new_table_flush(pc, storage, meta, table)
     IN /\ storage' = r.storage
        /\ meta' = r.meta
        /\ pc' = r.pc
  /\ last' = Call(IF pc = "allocated" THEN "flush_table" ELSE "flush_database",
                  Table_id(table), Table_name(table), Ok(0))
  /\ pub' = IF pc = "table_written"
            THEN [pub EXCEPT !.done = map_assign(pub.done, pub.ret, Table_name(table))]
            ELSE pub
  /\ UNCHANGED <<table, job, add_log, removed, issued,
               video, image, PREFIX, path_a, path_b, job_log>>

\* the process aborts (a fatal flush failure, a crash, or a plain exit)
Abort ==
  /\ pc \in {"idle", "allocated", "table_written"}
  /\ pc' = "down"
  /\ last' = Call("abort", -1, "", Fatal)
  /\ UNCHANGED <<meta, table, storage, job, add_log, removed, issued,
               video, image, PREFIX, path_a, path_b, pub, job_log>>

\* a new process loads the catalog from the backend
Load ==
  /\ pc = "down"
  /\ meta' = read_database_metadata(storage)
  /\ table' = TableMetadata_default
  /\ pc' = "idle"
  /\ last' = Call("load", -1, "", Ok(0))
  /\ add_log' = <<>>
  /\ removed' = {}
  /\ job_log' = <<>>
  /\ UNCHANGED <<storage, job, issued,
               video, image, PREFIX, path_a, path_b, pub>>

NextPublish ==
  \/ \E name \in Names : WriteNewTableAllocate(name)
  \/ WriteNewTableFlush
  \/ Abort
  \/ Load
  \/ \E id \in TableIds : RemoveTable(id)
  \/ \E name \in JobNames : AddJob(name)
  \/ \E id \in JobIds : RemoveJob(id)

SpecPublish == Init /\ [][NextPublish]_vars

(***************************************************************************)
(* JobMetadata calls                                                       *)
(***************************************************************************)
RowsInTable(table_id) ==
  /\ pc = "idle"
  /\ LET r == rows_in_table(job, table_id)
     IN /\ job' = r.job
        /\ last' = Call("rows_in_table", table_id, "", r.ret)
        /\ pc' = IF r.ret.fatal THEN "down" ELSE "idle"
  /\ UNCHANGED <<meta, table, storage, add_log, removed, issued,
               video, image, PREFIX, path_a, path_b, pub, job_log>>

TotalRows ==
  /\ pc = "idle"
  /\ LET ret == total_rows(job)
     IN /\ last' = Call("total_rows", -1, "", ret)
        /\ pc' = IF ret.fatal THEN "down" ELSE "idle"
  /\ UNCHANGED <<meta, table, storage, job, add_log, removed, issued,
               video, image, PREFIX, path_a, path_b, pub, job_log>>

NextJob ==
  \/ \E table_id \in JobTableIds \cup {7} : RowsInTable(table_id)
  \/ TotalRows

SpecJob == InitJob /\ [][NextJob]_vars

(***************************************************************************)
(* Item descriptors                                                        *)
(***************************************************************************)
\* a VideoMetadata and an ImageFormatGroupMetadata constructed from any
\* bounded payload
InitItem ==
  /\ InitCommon
  /\ table = TableMetadata_default
  /\ job = JobMetadata_default
  /\ video \in {VideoMetadata_from(d) : d \in VideoDescriptors}
  /\ image \in {ImageFormatGroupMetadata_from(d) : d \in ImageFormatGroupDescriptors}

\* an accessor call changes nothing but the record of the last call; the
\* record holds the length of the vector returned
ItemCall(op, len) ==
  /\ pc = "idle"
  /\ last' = Call(op, len, "", Ok(0))
  /\ UNCHANGED <<meta, table, pc, storage, job, add_log, removed, issued,
               video, image, PREFIX, path_a, path_b, pub, job_log>>

KeyframePositions == ItemCall("keyframe_positions", Len(Video_keyframe_positions(video)))

KeyframeByteOffsets ==
  ItemCall("keyframe_byte_offsets", Len(Video_keyframe_byte_offsets(video)))

CompressedSizes == ItemCall("compressed_sizes", Len(Image_compressed_sizes(image)))

NumImages == ItemCall("num_images", Image_num_images(image))

NextItem ==
  \/ KeyframePositions
  \/ KeyframeByteOffsets
  \/ CompressedSizes
  \/ NumImages

SpecItem == InitItem /\ [][NextItem]_vars

(***************************************************************************)
(* Column lookups of TableMetadata and JobMetadata                         *)
(***************************************************************************)
\* a TableMetadata and a JobMetadata constructed over any bounded column list
InitColumns ==
  /\ InitCommon
  /\ video = VideoMetadata_default
  /\ image = ImageFormatGroupMetadata_default
  /\ \E cs \in ColumnLists :
       /\ table = TableMetadata_from([id |-> 0, name |-> "t", columns |-> cs])
       /\ job = JobMetadata_from([id |-> 0, tasks |-> <<>>, columns |-> cs])

ColumnCall(op, id, name, ret) ==
  /\ pc = "idle"
  /\ last' = Call(op, id, name, ret)
  /\ pc' = IF ret.fatal THEN "down" ELSE "idle"
  /\ UNCHANGED <<meta, table, storage, job, add_log, removed, issued,
               video, image, PREFIX, path_a, path_b, pub, job_log>>

ColumnName(column_id) ==
  ColumnCall("column_name", column_id, "", Table_column_name(table, column_id))

ColumnId(column_name) ==
  ColumnCall("column_id", -1, column_name, Table_column_id(table, column_name))

ColumnType(column_id) ==
  ColumnCall("column_type", column_id, "", Table_column_type(table, column_id))

JobColumnId(column_name) ==
  \E ret \in Job_column_id(job, column_name) :
    ColumnCall("job_column_id", -1, column_name, ret)

QueryColumnIds == ColumnIds \cup {99}

QueryColumnNames == ColumnNames \cup {"none"}

NextColumns ==
  \/ \E column_id \in QueryColumnIds : ColumnName(column_id)
  \/ \E column_name \in QueryColumnNames : ColumnId(column_name)
  \/ \E column_id \in QueryColumnIds : ColumnType(column_id)
  \/ \E column_name \in QueryColumnNames : JobColumnId(column_name)

SpecColumns == InitColumns /\ [][NextColumns]_vars

(***************************************************************************)
(* Descriptor paths under a prefix that set_database_path can change       *)
(***************************************************************************)
SetDatabasePath(path) ==
  /\ pc = "idle"
  /\ PREFIX' = set_database_path(path)
  /\ last' = Call("set_database_path", -1, path, Ok(0))
  /\ UNCHANGED <<meta, table, pc, storage, job, add_log, removed, issued,
               video, image, path_a, path_b, pub, job_log>>

\* a descriptor_path call: path_b is the call, path_a the call before it
\* (keep = FALSE) or the earlier call it already held (keep = TRUE)
DescriptorPath(kind, via, keys, keep) ==
  /\ pc = "idle"
  /\ path_b' = [kind |-> kind, via |-> via, keys |-> keys, prefix |-> PREFIX,
                path |-> IF via = "member" THEN member_path(kind, keys)
                         ELSE static_path(kind, keys)]
  /\ path_a' = IF keep /\ path_a # NoPath THEN path_a ELSE path_b
  /\ last' = Call("descriptor_path", -1, kind, Ok(0))
  /\ UNCHANGED <<meta, table, pc, storage, job, add_log, removed, issued,
               video, image, PREFIX, pub, job_log>>

NextPath ==
  \/ \E path \in Roots : SetDatabasePath(path)
  \/ \E kind \in DOMAIN PathKeys, via \in {"member", "static"}, keep \in BOOLEAN :
       \E keys \in PathKeys[kind] : DescriptorPath(kind, via, keys, keep)

SpecPath == Init /\ [][NextPath]_vars

(***************************************************************************)
(* Properties                                                              *)
(***************************************************************************)
QueryIds == -1..(MaxTables + 1)

QueryNames == Names \cup JobNames \cup {"k", "none"}

\* C1: every table id listed in the catalog descriptor persisted at the
\* backend has a table descriptor persisted at that table's path, whatever
\* publishes ran and wherever the process aborted.
C1_NoDanglingReference ==
  database_metadata_path \in DOMAIN storage =>
    \A i \in 1..Len(storage[database_metadata_path].tables) :
      table_descriptor_path(storage[database_metadata_path].tables[i].id)
        \in DOMAIN storage

\* the process aborted between the two flushes of a publish that followed a
\* successful one: the backend holds a catalog with entries and an orphaned
\* table descriptor at the id the persisted catalog would issue next
C1_Witness ==
  /\ pc = "down"
  /\ database_metadata_path \in DOMAIN storage
  /\ Len(storage[database_metadata_path].tables) >= 1
  /\ table_descriptor_path(storage[database_metadata_path].next_table_id)
       \in DOMAIN storage

\* C2: an id write_new_table allocated is never issued again, by any later
\* publish, in this process run or after the catalog was loaded again.
C2_IdNeverReissued ==
  [][(pc = "idle" /\ last'.op = "write_new_table") => last'.id \notin issued]_vars

\* C3: on a fresh catalog the k-th add_table returns k-1, and the id
\* add_table returns is never one that remove_table removed before.
C3_IdMonotonic ==
  /\ \A k \in 1..Len(add_log) : add_log[k] = k - 1
  /\ last.op = "add_table" => last.ret.val \notin removed

C3_Witness ==
  /\ last.op = "add_table"
  /\ Len(add_log) >= 3
  /\ removed # {}

\* every answer the lookups of a catalog give
Answers(m) ==
  [has_table |-> [id \in QueryIds |-> has_table(m, id)],
   has_table_name |-> [name \in QueryNames |-> has_table_name(m, name)],
   get_table_name |-> [id \in QueryIds |-> get_table_name(m, id)],
   get_table_id |-> [name \in QueryNames |-> get_table_id(m, name)],
   has_job |-> [id \in QueryIds |-> has_job(m, id)],
   has_job_name |-> [name \in QueryNames |-> has_job_name(m, name)],
   get_job_name |-> [id \in QueryIds |-> get_job_name(m, id)],
   get_job_id |-> [name \in QueryNames |-> get_job_id(m, name)]]

\* C4: the catalog constructed from get_descriptor() answers has_table,
\* has_job, get_table_name/get_job_name and get_table_id/get_job_id as the
\* catalog it was serialized from.
C4_RoundTrip ==
  Answers(DatabaseMetadata_from(get_descriptor(meta))) = Answers(meta)

C4_Witness ==
  /\ last.op = "reconstruct"
  /\ removed # {}
  /\ Cardinality(DOMAIN meta.table_names_) >= 2
  /\ DOMAIN meta.job_names_ # {}

\* C5: no two live table ids map to the same name, and no two live job ids.
C5_NamesUnique ==
  /\ \A i, j \in DOMAIN meta.table_names_ :
       i # j => meta.table_names_[i] # meta.table_names_[j]
  /\ \A i, j \in DOMAIN meta.job_names_ :
       i # j => meta.job_names_[i] # meta.job_names_[j]

\* C6: remove_table(id) on an absent id aborts and changes nothing; on a
\* present id it removes that entry only: the other entries, both counters,
\* the job index and every file at the backend stay.  remove_job likewise.
C6_RemoveEntryOnly ==
  [][/\ (pc = "idle" /\ last'.op = "remove_table") =>
          IF last'.id \notin DOMAIN meta.table_names_
          THEN /\ last'.ret.fatal
               /\ pc' = "down"
               /\ meta' = meta
               /\ storage' = storage
          ELSE /\ ~last'.ret.fatal
               /\ DOMAIN meta'.table_names_ = DOMAIN meta.table_names_ \ {last'.id}
               /\ \A k \in DOMAIN meta'.table_names_ :
                    meta'.table_names_[k] = meta.table_names_[k]
               /\ meta'.next_table_id_ = meta.next_table_id_
               /\ meta'.next_job_id_ = meta.next_job_id_
               /\ meta'.job_names_ = meta.job_names_
               /\ storage' = storage
               /\ ~has_table(meta', last'.id)
     /\ (pc = "idle" /\ last'.op = "remove_job") =>
          IF last'.id \notin DOMAIN meta.job_names_
          THEN /\ last'.ret.fatal
               /\ pc' = "down"
               /\ meta' = meta
               /\ storage' = storage
          ELSE /\ ~last'.ret.fatal
               /\ DOMAIN meta'.job_names_ = DOMAIN meta.job_names_ \ {last'.id}
               /\ \A k \in DOMAIN meta'.job_names_ :
                    meta'.job_names_[k] = meta.job_names_[k]
               /\ meta'.next_job_id_ = meta.next_job_id_
               /\ meta'.next_table_id_ = meta.next_table_id_
               /\ meta'.table_names_ = meta.table_names_
               /\ storage' = storage
               /\ ~has_job(meta', last'.id)]_vars

\* a published table was removed from the index: its descriptor is still at
\* the backend, next to the persisted catalog, and another table is live
C6_Witness ==
  /\ last.op = "remove_table"
  /\ ~last.ret.fatal
  /\ table_descriptor_path(last.id) \in DOMAIN storage
  /\ database_metadata_path \in DOMAIN storage
  /\ DOMAIN meta.table_names_ # {}

\* C7: get_table_id(name) aborts exactly when has_table(name) is false, and
\* otherwise returns an id that has_table(id) holds of and that
\* get_table_name maps back to name.  The job lookups likewise.
C7_LookupConsistent ==
  \A name \in QueryNames :
    /\ get_table_id(meta, name).fatal <=> ~has_table_name(meta, name)
    /\ has_table_name(meta, name) =>
         /\ has_table(meta, get_table_id(meta, name).val)
         /\ get_table_name(meta, get_table_id(meta, name).val) = Ok(name)
    /\ get_job_id(meta, name).fatal <=> ~has_job_name(meta, name)
    /\ has_job_name(meta, name) =>
         /\ has_job(meta, get_job_id(meta, name).val)
         /\ get_job_name(meta, get_job_id(meta, name).val) = Ok(name)

\* a reconstructed catalog in which a name is held by two live ids, so that
\* the scan order decides, and another name is absent
C7_Witness ==
  /\ last.op = "reconstruct"
  /\ \E i, j \in DOMAIN meta.table_names_ :
       /\ i < j
       /\ meta.table_names_[i] = meta.table_names_[j]
       /\ get_table_id(meta, meta.table_names_[j]) = Ok(i)
  /\ \E name \in Names : ~has_table_name(meta, name)
  /\ DOMAIN meta.job_names_ # {}

\* C8: two consecutive calls of rows_in_table(t) return the same value.
C8_CacheCoherent ==
  [][(/\ last.op = "rows_in_table"
      /\ last'.op = "rows_in_table"
      /\ last'.id = last.id) => last'.ret = last.ret]_vars

\* C9: table_ids() holds each distinct output_table_id of the tasks once.
C9_TableIdsUnique ==
  /\ \A i, j \in 1..Len(job.table_ids_) :
       i # j => job.table_ids_[i] # job.table_ids_[j]
  /\ {job.table_ids_[i] : i \in 1..Len(job.table_ids_)}
       = {job.descriptor_.tasks[i].output_table_id :
            i \in 1..Len(job.descriptor_.tasks)}

RECURSIVE SumFirstRows(_, _)
\* the sum over the tasks with index in S of the first sample's row count
SumFirstRows(tasks, S) ==
  IF S = {} THEN 0
  ELSE LET i == CHOOSE x \in S : TRUE
       IN tasks[i].samples[1].rows_size + SumFirstRows(tasks, S \ {i})

\* C10: total_rows() aborts when a task has no sample, and otherwise returns
\* the sum over all tasks of the row count of the task's first sample, on
\* every call.
C10_TotalRows ==
  last.op = "total_rows" =>
    IF \E i \in 1..Len(job.descriptor_.tasks) :
         Len(job.descriptor_.tasks[i].samples) = 0
    THEN last.ret.fatal /\ pc = "down"
    ELSE last.ret = Ok(SumFirstRows(job.descriptor_.tasks,
                                    1..Len(job.descriptor_.tasks)))

\* two tasks, the first with two samples of different row counts; the call
\* followed a rows_in_table call that filled the cache
C10_Witness ==
  /\ last.op = "total_rows"
  /\ ~last.ret.fatal
  /\ Len(job.descriptor_.tasks) = 2
  /\ Len(job.descriptor_.tasks[1].samples) = 2
  /\ job.descriptor_.tasks[1].samples[1].rows_size
       # job.descriptor_.tasks[1].samples[2].rows_size
  /\ job.descriptor_.tasks[1].samples[1].rows_size
       # job.descriptor_.tasks[2].samples[1].rows_size
  /\ DOMAIN job.rows_in_table_ # {}

\* C11: no constructed VideoMetadata returns keyframe_positions() and
\* keyframe_byte_offsets() of different lengths, and no constructed
\* ImageFormatGroupMetadata has compressed_sizes() of a length other than
\* num_images(): a payload with mismatched parallel arrays is rejected.
C11_ParallelArraysValidated ==
  /\ Len(Video_keyframe_positions(video)) = Len(Video_keyframe_byte_offsets(video))
  /\ Len(Image_compressed_sizes(image)) = Image_num_images(image)

\* the columns of the table, in list order
TableColumns == table.descriptor_.columns

\* the position of the first column in list order that satisfies P
FirstColumn(P(_)) ==
  CHOOSE i \in 1..Len(TableColumns) :
    /\ P(TableColumns[i])
    /\ \A j \in 1..(i - 1) : ~P(TableColumns[j])

\* the three lookups return what the first matching column holds and abort
\* exactly when no column matches
C12_FirstMatch ==
  /\ last.op = "column_id" =>
       LET Named(c) == c.name = last.name
       IN IF \E i \in 1..Len(TableColumns) : Named(TableColumns[i])
          THEN last.ret = Ok(TableColumns[FirstColumn(Named)].id)
          ELSE last.ret.fatal /\ pc = "down"
  /\ last.op = "column_name" =>
       LET WithId(c) == c.id = last.id
       IN IF \E i \in 1..Len(TableColumns) : WithId(TableColumns[i])
          THEN last.ret = Ok(TableColumns[FirstColumn(WithId)].name)
          ELSE last.ret.fatal /\ pc = "down"
  /\ last.op = "column_type" =>
       LET WithId(c) == c.id = last.id
       IN IF \E i \in 1..Len(TableColumns) : WithId(TableColumns[i])
          THEN last.ret = Ok(TableColumns[FirstColumn(WithId)].type)
          ELSE last.ret.fatal /\ pc = "down"

\* C12 as stated: first-match lookups that abort exactly on a miss, and
\* column_name(column_id(n)) = n for every column name n present.
C12_Original ==
  /\ C12_FirstMatch
  /\ \A n \in ColumnNames :
       (\E i \in 1..Len(TableColumns) : TableColumns[i].name = n) =>
         Table_column_name(table, Table_column_id(table, n).val) = Ok(n)

\* C12 amended: first-match lookups that abort exactly on a miss, and
\* column_name(column_id(n)) = n for every column name n present whose first
\* column is also the first column of the list with that column's id; for
\* every other present name the round trip gives another name.
C12_Amended ==
  /\ C12_FirstMatch
  /\ \A n \in ColumnNames :
       (\E i \in 1..Len(TableColumns) : TableColumns[i].name = n) =>
         LET Named(c) == c.name = n
             first == FirstColumn(Named)
             SameId(c) == c.id = TableColumns[first].id
         IN (FirstColumn(SameId) = first)
              <=> Table_column_name(table, Table_column_id(table, n).val) = Ok(n)

\* column_id was called with a name that two columns of different ids hold
C12_Witness ==
  /\ last.op = "column_id"
  /\ ~last.ret.fatal
  /\ \E i, j \in 1..Len(TableColumns) :
       /\ i < j
       /\ TableColumns[i].name = last.name
       /\ TableColumns[j].name = last.name
       /\ TableColumns[i].id # TableColumns[j].id

\* C13 as stated: of any two descriptor_path computations of a run for the
\* same entity kind, through the member or the static function, equal key
\* tuples give equal paths and distinct key tuples distinct paths.
C13_Original ==
  (path_a.kind = path_b.kind /\ path_a.kind # "none") =>
    (path_a.keys = path_b.keys <=> path_a.path = path_b.path)

\* C13 amended: the same, of any two computations made under the same value
\* of the path prefix.
C13_Amended ==
  (/\ path_a.kind = path_b.kind
   /\ path_a.kind # "none"
   /\ path_a.prefix = path_b.prefix) =>
    (path_a.keys = path_b.keys <=> path_a.path = path_b.path)

\* a video item descriptor's own path (to write) and the static path of the
\* same keys (to read), under a prefix set_database_path set; table and
\* column ids differ
C13_Witness ==
  /\ path_a.kind = "video"
  /\ path_b.kind = "video"
  /\ path_a.via = "member"
  /\ path_b.via = "static"
  /\ path_a.keys = path_b.keys
  /\ path_a.keys[1] # path_a.keys[2]
  /\ path_a.prefix = path_b.prefix
  /\ path_a.prefix # ""

\* C14: on a cache miss of rows_in_table(t), in a job with at least one task
\* and a sample in every task, the call returns the row count of the first
\* sample of the first task and stores that same value in the cache for t.
C14_MissReturnsFirstTask ==
  [][(/\ pc = "idle"
      /\ last'.op = "rows_in_table"
      /\ last'.id \notin DOMAIN job.rows_in_table_
      /\ Len(job.descriptor_.tasks) >= 1
      /\ \A i \in 1..Len(job.descriptor_.tasks) :
           Len(job.descriptor_.tasks[i].samples) > 0)
     => /\ last'.ret = Ok(job.descriptor_.tasks[1].samples[1].rows_size)
        /\ last'.id \in DOMAIN job'.rows_in_table_
        /\ job'.rows_in_table_[last'.id] = last'.ret.val]_vars

\* the (id, name) pairs of an index
LivePairs(names) == {[id |-> k, name |-> names[k]] : k \in DOMAIN names}

\* C15: the descriptor get_descriptor() returns lists exactly the live
\* (id, name) table pairs and the live (id, name) job pairs, each once, none
\* of a removed table and none left over from an earlier call, and carries
\* the catalog's current counters.
C15_NeverStale ==
  last.op = "get_descriptor" =>
    /\ meta.descriptor_.next_table_id = meta.next_table_id_
    /\ meta.descriptor_.next_job_id = meta.next_job_id_
    /\ Len(meta.descriptor_.tables) = Cardinality(DOMAIN meta.table_names_)
    /\ {meta.descriptor_.tables[i] : i \in 1..Len(meta.descriptor_.tables)}
         = LivePairs(meta.table_names_)
    /\ \A i \in 1..Len(meta.descriptor_.tables) :
         meta.descriptor_.tables[i].id \notin removed
    /\ Len(meta.descriptor_.jobs) = Cardinality(DOMAIN meta.job_names_)
    /\ {meta.descriptor_.jobs[i] : i \in 1..Len(meta.descriptor_.jobs)}
         = LivePairs(meta.job_names_)

\* get_descriptor() was called on a catalog with live tables and a live job
\* after a table and a job were removed
C15_Witness ==
  /\ last.op = "get_descriptor"
  /\ removed # {}
  /\ Cardinality(DOMAIN meta.table_names_) >= 2
  /\ DOMAIN meta.job_names_ # {}
  /\ meta.next_job_id_ > Cardinality(DOMAIN meta.job_names_)

\* C16: the counters never decrease; every live table id is below
\* next_table_id and every live job id below next_job_id; add_table and
\* add_job never write to an id the index holds; the catalog reconstructed
\* from get_descriptor() returns from its next add_table and add_job the ids
\* the original returns.
C16_CountersBoundIds ==
  /\ [](/\ \A id \in DOMAIN meta.table_names_ : id < meta.next_table_id_
        /\ \A id \in DOMAIN meta.job_names_ : id < meta.next_job_id_
        /\ \A name \in Names :
             /\ add_table(meta, name).ret.val \notin DOMAIN meta.table_names_
             /\ add_table(DatabaseMetadata_from(get_descriptor(meta)), name).ret
                  = add_table(meta, name).ret
        /\ \A name \in JobNames :
             /\ add_job(meta, name).ret.val \notin DOMAIN meta.job_names_
             /\ add_job(DatabaseMetadata_from(get_descriptor(meta)), name).ret
                  = add_job(meta, name).ret)
  /\ [][/\ meta'.next_table_id_ >= meta.next_table_id_
        /\ meta'.next_job_id_ >= meta.next_job_id_]_vars

\* a reconstructed catalog whose newest table was removed: the counter is
\* more than one above the largest live id, and the same of the jobs
C16_Witness ==
  /\ last.op = "reconstruct"
  /\ (meta.next_table_id_ - 1) \in removed
  /\ DOMAIN meta.table_names_ # {}
  /\ meta.next_job_id_ > 0
  /\ (meta.next_job_id_ - 1) \notin DOMAIN meta.job_names_

\* C17: when write_new_table has returned, table.id() is the id add_table
\* returned, the catalog descriptor at the backend maps that id to
\* table.name(), and the file at the table path of that id is a table
\* descriptor with that id and name; the descriptor of every publish that
\* completed before is still at its path, with its id and name.
C17_PublishComplete ==
  /\ last.op = "flush_database" =>
       /\ Table_id(table) = pub.ret
       /\ database_metadata_path \in DOMAIN storage
       /\ \E i \in 1..Len(storage[database_metadata_path].tables) :
            storage[database_metadata_path].tables[i]
              = [id |-> pub.ret, name |-> Table_name(table)]
       /\ table_descriptor_path(pub.ret) \in DOMAIN storage
       /\ storage[table_descriptor_path(pub.ret)].id = pub.ret
       /\ storage[table_descriptor_path(pub.ret)].name = Table_name(table)
  /\ \A id \in DOMAIN pub.done :
       /\ table_descriptor_path(id) \in DOMAIN storage
       /\ storage[table_descriptor_path(id)].id = id
       /\ storage[table_descriptor_path(id)].name = pub.done[id]

\* a publish completed after two others, one of a table of another name and
\* one whose table was removed from the catalog since
C17_Witness ==
  /\ last.op = "flush_database"
  /\ Cardinality(DOMAIN pub.done) >= 3
  /\ \E id \in DOMAIN pub.done : id \notin DOMAIN meta.table_names_
  /\ \E id \in DOMAIN pub.done : pub.done[id] # Table_name(table)

\* C18: add_table and remove_table leave next_job_id and the job index as
\* they are, add_job and remove_job leave next_table_id and the table index
\* as they are, and on a fresh catalog the k-th add_job returns k-1 whatever
\* table operations ran in between.
C18_IdSpacesIndependent ==
  /\ [][/\ last'.op \in {"add_table", "remove_table"} =>
             /\ meta'.next_job_id_ = meta.next_job_id_
             /\ meta'.job_names_ = meta.job_names_
        /\ last'.op \in {"add_job", "remove_job"} =>
             /\ meta'.next_table_id_ = meta.next_table_id_
             /\ meta'.table_names_ = meta.table_names_]_vars
  /\ [](\A k \in 1..Len(job_log) : job_log[k] = k - 1)

\* the second add_job, after more add_table calls than add_job calls and a
\* remove_table
C18_Witness ==
  /\ last.op = "add_job"
  /\ last.ret = Ok(1)
  /\ Len(job_log) = 2
  /\ Len(add_log) > Len(job_log)
  /\ removed # {}

\* C19: JobMetadata::column_id(name) returns the id of a column of the job
\* named name, and fails when the job has no column of that name.
C19_JobColumnId ==
  last.op = "job_column_id" =>
    IF \E i \in 1..Len(job.descriptor_.columns) :
         job.descriptor_.columns[i].name = last.name
    THEN \E i \in 1..Len(job.descriptor_.columns) :
           /\ job.descriptor_.columns[i].name = last.name
           /\ last.ret = Ok(job.descriptor_.columns[i].id)
    ELSE last.ret.fatal

====
